---- MODULE Spec2Model ----
(***************************************************************************)
(* Model of BaseConfigGenerator.generate_configs                           *)
(* (src/src/volttron_config_gen/base/config_driver.py).                    *)
(*                                                                         *)
(* One run of generate_configs is a sequence of steps: the for loop takes  *)
(* the next (ahu_id, vavs) pair, generate_ahu_configs handles the AHU and  *)
(* then one VAV per step, returns, the bundle is written, and after the    *)
(* loop the meter is handled and the run exits.  The abstract methods      *)
(* (get_ahu_and_vavs, get_building_meter, generate_config_from_template,   *)
(* generate_registry_config when overridden) are inputs drawn from small   *)
(* sets; a VAV gets the same returns whenever it is met, and               *)
(* get_name_from_id is a fixed table.                                      *)
(* Python dicts are functions from keys to values; None and the empty dict *)
(* are both the empty function (both are falsy in every test of the code). *)
(***************************************************************************)
EXTENDS Integers, Sequences, FiniteSets, TLC

\* ---------------------------------------------------------------- bounds
MaxGroups == 2      \* pairs the hierarchy iterator yields in one run
MaxVavs == 2        \* VAVs in one group

\* ------------------------------------------------------- site settings
driver_vip == "platform.driver"
topic_prefix == "devices/campus/building/"
output_configs == "driver_configs/configs"
output_errors == "driver_configs/errors"

ahu_topic_pattern(name) == topic_prefix \o name
meter_topic_pattern(name) == topic_prefix \o name
\* vav_topic_pattern.format(ahu=ahu_name, vav='{vav}'): the text before the {vav} slot
vav_topic_with_ahu(ahu_name) == topic_prefix \o ahu_name \o "/"
\* vav_topic_pattern.replace("{ahu}/", ""): the text before the {vav} slot
vav_topic_without_ahu == topic_prefix
\* vav_topic.format(vav=vav)
FormatVav(vav_topic, vav) == vav_topic \o vav

\* ------------------------------------------------------------- values
None == [k \in {} |-> <<>>]          \* None / {} : falsy
Falsy(d) == DOMAIN d = {}
Get(d, k) == IF k \in DOMAIN d THEN d[k] ELSE ""   \* dict.get; "" stands for a falsy value

NoneId == "<None>"                   \* the identifier None
IdTruthy(id) == id # NoneId /\ id # ""

NullAhuIds == {NoneId, ""}
VavIdSeq == <<"b1.VAV1", "b1.VAV2", "b1.VAV3">>

\* the sites of the model: the AHU identifiers get_ahu_and_vavs may
\* return and the meter identifiers get_building_meter may return
Sites ==
    { \* VAVs without an AHU, beside two AHUs
      [ahus |-> NullAhuIds \cup {"b1.AHU1", "b1.AHU2"}, meters |-> {"b1.METER"}],
      \* two AHUs named alike
      [ahus |-> {"b1.AHU1", "b2.AHU1"}, meters |-> {"b1.METER"}],
      \* an AHU with an empty name
      [ahus |-> {"b1."}, meters |-> {"b1.METER"}],
      \* a meter named as an AHU
      [ahus |-> {"b1.AHU1"}, meters |-> {"b3.AHU1"}] }

\* get_name_from_id: the text after the last dot of the identifier
get_name_from_id(id) ==
    CASE id = "b1.AHU1" -> "AHU1"
      [] id = "b2.AHU1" -> "AHU1"
      [] id = "b3.AHU1" -> "AHU1"
      [] id = "b1.AHU2" -> "AHU2"
      [] id = "b1." -> ""
      [] id = "b1.VAV1" -> "VAV1"
      [] id = "b1.VAV2" -> "VAV2"
      [] id = "b1.VAV3" -> "VAV3"
      [] id = "b1.METER" -> "METER"
      [] OTHER -> id

\* the VAV lists of a group: the first n VAVs of the building
VavLists == {SubSeq(VavIdSeq, 1, n) : n \in 0..MaxVavs}

\* what generate_config_from_template may return
PlainConfig == [driver_type |-> "bacnet"]
RegistryNeedConfig == [driver_type |-> "bacnet", registry_config |-> "registry.csv"]
TemplateReturns == {None, PlainConfig, RegistryNeedConfig}

\* what an overriding generate_registry_config may return: (rfile, rtype)
NoFile == [rfile |-> "", rtype |-> "csv"]
RegistryReturns == {NoFile, [rfile |-> "points", rtype |-> "csv"]}
NotCalled == [rfile |-> "", rtype |-> ""]

Truthy(v) == v # ""
NeedsRegistry(template) == ~Falsy(template) /\ Truthy(Get(template, "registry_config"))

\* what the two collaborators return for one device: the template
\* instantiation and, where the config asks for a registry, the registry pair
DeviceReturns ==
    {d \in [template : TemplateReturns, reg : RegistryReturns] :
        ~NeedsRegistry(d.template) => d.reg = NoFile}

\* the VAVs a run can meet
VavIds == {VavIdSeq[k] : k \in 1..MaxVavs}

\* ------------------------------------------------------------- state
VARIABLES
    site,                      \* the identifiers the collaborators of this run return
    overridden,                \* TRUE iff the subclass overrides generate_registry_config
    vav_returns,               \* what the collaborators return for each VAV (same id, same return)
    n_groups,                  \* pairs yielded so far
    pc,                        \* position of the run
    ahu_id, vavs, vi,          \* loop variables: current pair, index of the next VAV
    ahu_name, vav_topic,       \* locals of generate_ahu_configs
    final_mapper,              \* local of generate_ahu_configs / generate_meter_config
    files,                     \* path -> content of the files written by this run
    unmapped_device_details,   \* self.unmapped_device_details
    power_meter_id,            \* self.power_meter_id
    exit_status,               \* argument of sys.exit, "none" before the exit
    ret,                       \* history: what the collaborators returned for the last device
    log,                       \* history: devices of the current group and whether each mapped
    any_unmapped,              \* history: some device of the run could not be mapped
    null_vavs                  \* history: the mapped VAVs of the null-identifier groups

vars == <<site, overridden, vav_returns, n_groups, pc, ahu_id, vavs, vi, ahu_name,
          vav_topic, final_mapper, files, unmapped_device_details, power_meter_id,
          exit_status, ret, log, any_unmapped, null_vavs>>

NoRet == [equip_id |-> "", equip_type |-> "", template |-> None, reg |-> NotCalled]

\* ----------------------------------------------------- pure functions
Entry(name, config) == ("config-name" :> name) @@ ("config" :> config)
RegistryEntry(name, rfile, rtype) ==
    ("config-name" :> name) @@ ("config" :> rfile) @@ ("config-type" :> rtype)

EmptyMapper == (driver_vip :> <<>>)
AppendTo(mapper, entry) == [mapper EXCEPT ![driver_vip] = Append(@, entry)]

\* generate_registry_config as it would be with a default that returns no file
\* instead of raising
generate_registry_config_ReturnsNoFile(equip_id, equip_type, is_overridden, r) ==
    IF is_overridden
    THEN [raised |-> FALSE, rfile |-> r.rfile, rtype |-> r.rtype]
    ELSE [raised |-> FALSE, rfile |-> "", rtype |-> ""]

\* generate_registry_config: raises NotImplementedError unless overridden,
\* an override returns the pair r
generate_registry_config(equip_id, equip_type, is_overridden, r) ==
    IF is_overridden
    THEN [raised |-> FALSE, rfile |-> r.rfile, rtype |-> r.rtype]
    ELSE [raised |-> TRUE, rfile |-> "", rtype |-> ""]

\* update_registry_config as it would be without the rewrite of the
\* registry_config field
update_registry_config_NoRewrite(driver_config, equip_id, equip_type, mapper, is_overridden, r) ==
    IF Falsy(driver_config)
    THEN [raised |-> FALSE, result |-> FALSE, driver_config |-> driver_config, mapper |-> mapper]
    ELSE IF Truthy(Get(driver_config, "registry_config"))
    THEN LET g == generate_registry_config(equip_id, equip_type, is_overridden, r)
         IN IF g.raised
            THEN [raised |-> TRUE, result |-> FALSE, driver_config |-> driver_config,
                  mapper |-> mapper]
            ELSE IF ~Truthy(g.rfile)
            THEN [raised |-> FALSE, result |-> FALSE, driver_config |-> driver_config,
                  mapper |-> mapper]
            ELSE [raised |-> FALSE, result |-> TRUE,
                  driver_config |-> driver_config,
                  mapper |->
                      AppendTo(mapper,
                               RegistryEntry("registry_config/" \o equip_id \o "." \o g.rtype,
                                             g.rfile, g.rtype))]
    ELSE [raised |-> FALSE, result |-> TRUE, driver_config |-> driver_config, mapper |-> mapper]

\* update_registry_config as it would be if a missing registry file were an
\* error raised to the caller instead of a False result
update_registry_config_RaisesOnNoFile(driver_config, equip_id, equip_type, mapper, is_overridden, r) ==
    IF Falsy(driver_config)
    THEN [raised |-> FALSE, result |-> FALSE, driver_config |-> driver_config, mapper |-> mapper]
    ELSE IF Truthy(Get(driver_config, "registry_config"))
    THEN LET g == generate_registry_config(equip_id, equip_type, is_overridden, r)
         IN IF g.raised \/ ~Truthy(g.rfile)
            THEN [raised |-> TRUE, result |-> FALSE, driver_config |-> driver_config,
                  mapper |-> mapper]
            ELSE [raised |-> FALSE, result |-> TRUE,
                  driver_config |->
                      [driver_config EXCEPT !["registry_config"] =
                          "config://registry_config/" \o equip_id \o "." \o g.rtype],
                  mapper |->
                      AppendTo(mapper,
                               RegistryEntry("registry_config/" \o equip_id \o "." \o g.rtype,
                                             g.rfile, g.rtype))]
    ELSE [raised |-> FALSE, result |-> TRUE, driver_config |-> driver_config, mapper |-> mapper]

\* update_registry_config: result, the config after the in-place rewrite, the
\* mapper after the append; raised when generate_registry_config raised
update_registry_config(driver_config, equip_id, equip_type, mapper, is_overridden, r) ==
    IF Falsy(driver_config)
    THEN [raised |-> FALSE, result |-> FALSE, driver_config |-> driver_config, mapper |-> mapper]
    ELSE IF Truthy(Get(driver_config, "registry_config"))
    THEN LET g == generate_registry_config(equip_id, equip_type, is_overridden, r)
         IN IF g.raised
            THEN [raised |-> TRUE, result |-> FALSE, driver_config |-> driver_config,
                  mapper |-> mapper]
            ELSE IF ~Truthy(g.rfile)
            THEN [raised |-> FALSE, result |-> FALSE, driver_config |-> driver_config,
                  mapper |-> mapper]
            ELSE [raised |-> FALSE, result |-> TRUE,
                  driver_config |->
                      [driver_config EXCEPT !["registry_config"] =
                          "config://registry_config/" \o equip_id \o "." \o g.rtype],
                  mapper |->
                      AppendTo(mapper,
                               RegistryEntry("registry_config/" \o equip_id \o "." \o g.rtype,
                                             g.rfile, g.rtype))]
    ELSE [raised |-> FALSE, result |-> TRUE, driver_config |-> driver_config, mapper |-> mapper]

\* lines 153-157 and 167-171 as they would be without the test of result
AddDevice_IgnoresResult(mapper, equip_id, equip_type, topic, template, is_overridden, r) ==
    LET u == update_registry_config(template, equip_id, equip_type, mapper, is_overridden, r)
    IN [raised |-> u.raised,
        mapper |-> IF u.raised THEN u.mapper
                   ELSE AppendTo(u.mapper, Entry(topic, u.driver_config))]

\* lines 153-157 and 167-171: template instantiation, registry resolution, append
AddDevice(mapper, equip_id, equip_type, topic, template, is_overridden, r) ==
    LET u == update_registry_config(template, equip_id, equip_type, mapper, is_overridden, r)
    IN [raised |-> u.raised,
        mapper |-> IF u.result THEN AppendTo(u.mapper, Entry(topic, u.driver_config))
                   ELSE u.mapper]

\* generate_meter_config: (meter, final_mapper)
generate_meter_config(meter_id, template) ==
    LET meter == get_name_from_id(meter_id)
        topic == meter_topic_pattern(meter)
    IN <<meter,
         IF ~Falsy(template) THEN AppendTo(EmptyMapper, Entry(topic, template))
         ELSE EmptyMapper>>

\* open(path, 'w') and json.dump(content)
WriteFile(fs, path, content) ==
    [p \in DOMAIN fs \cup {path} |-> IF p = path THEN content ELSE fs[p]]

ConfigPath(name) == output_configs \o "/" \o name \o ".json"
UnmappedVavsPath == output_errors \o "/unmapped_vavs.json"
ErrFile == output_errors \o "/unmapped_device_details"

\* history only: whether a device with these collaborator returns mapped
Maps(template, r) == ~Falsy(template) /\ (NeedsRegistry(template) => Truthy(r.rfile))

\* -------------------------------------------------------------- Init
Init ==
    /\ site \in Sites
    /\ overridden \in BOOLEAN
    /\ vav_returns \in [VavIds -> DeviceReturns]
    \* without an override no registry pair is ever returned
    /\ overridden \/ \A v \in VavIds : vav_returns[v].reg = NoFile
    /\ n_groups = 0
    /\ pc = "loop"
    /\ ahu_id = NoneId /\ vavs = <<>> /\ vi = 1
    /\ ahu_name = "" /\ vav_topic = ""
    /\ final_mapper = None
    /\ files = [p \in {} |-> None]
    /\ unmapped_device_details = [k \in {} |-> None]
    /\ power_meter_id = NoneId
    /\ exit_status = "none"
    /\ ret = NoRet
    /\ log = <<>>
    /\ any_unmapped = FALSE
    /\ null_vavs = {}

\* ------------------------------------------------------------ actions
\* for ahu_id, vavs in iterator: the iterator yields a pair; entry of
\* generate_ahu_configs (lines 144-146)
NextGroup ==
    /\ pc = "loop"
    /\ n_groups < MaxGroups
    /\ \E id \in site.ahus, vs \in VavLists :
          /\ ahu_id' = id
          /\ vavs' = vs
    /\ n_groups' = n_groups + 1
    /\ vi' = 1
    /\ ahu_name' = ""
    /\ vav_topic' = ""
    /\ final_mapper' = EmptyMapper
    /\ log' = <<>>
    /\ pc' = "ahu"
    /\ UNCHANGED <<site, overridden, vav_returns, files, unmapped_device_details,
                   power_meter_id, exit_status, ret, any_unmapped, null_vavs>>

\* lines 149-159: the AHU of a group with a truthy identifier
AhuConfig ==
    /\ pc = "ahu"
    /\ IdTruthy(ahu_id)
    /\ \E d \in DeviceReturns :
          LET name == get_name_from_id(ahu_id)
              topic == ahu_topic_pattern(name)
              template == d.template
              r == d.reg
              a == AddDevice(final_mapper, ahu_id, "ahu", topic, template, overridden, r)
              called == NeedsRegistry(template)
          IN /\ overridden \/ r = NoFile
             /\ ahu_name' = name
             /\ ret' = [equip_id |-> ahu_id, equip_type |-> "ahu", template |-> template,
                        reg |-> IF called /\ overridden THEN r ELSE NotCalled]
             /\ IF a.raised
                THEN /\ pc' = "aborted"
                     /\ UNCHANGED <<final_mapper, vav_topic, log, any_unmapped>>
                ELSE /\ pc' = "vav"
                     /\ final_mapper' = a.mapper
                     /\ vav_topic' = vav_topic_with_ahu(name)
                     /\ log' = Append(log, [equip_id |-> ahu_id, maps |-> Maps(template, r)])
                     /\ any_unmapped' = (any_unmapped \/ ~Maps(template, r))
    /\ UNCHANGED <<site, overridden, vav_returns, n_groups, ahu_id, vavs, vi, files,
                   unmapped_device_details, power_meter_id, exit_status, null_vavs>>

\* lines 160-161: a group with a null identifier
NoAhu ==
    /\ pc = "ahu"
    /\ ~IdTruthy(ahu_id)
    /\ vav_topic' = vav_topic_without_ahu
    /\ pc' = "vav"
    /\ UNCHANGED <<site, overridden, vav_returns, n_groups, ahu_id, vavs, vi, ahu_name,
                   final_mapper, files, unmapped_device_details,
                   power_meter_id, exit_status, ret, log, any_unmapped, null_vavs>>

\* lines 163-171: one iteration of the loop over the VAVs
VavConfig ==
    /\ pc = "vav"
    /\ vi <= Len(vavs)
    /\ LET vav_id == vavs[vi]
           vav == get_name_from_id(vav_id)
           topic == FormatVav(vav_topic, vav)
           template == vav_returns[vav_id].template
           r == vav_returns[vav_id].reg
           a == AddDevice(final_mapper, vav_id, "vav", topic, template, overridden, r)
           called == NeedsRegistry(template)
       IN /\ ret' = [equip_id |-> vav_id, equip_type |-> "vav", template |-> template,
                     reg |-> IF called /\ overridden THEN r ELSE NotCalled]
          /\ IF a.raised
             THEN /\ pc' = "aborted"
                  /\ UNCHANGED <<final_mapper, vi, log, any_unmapped, null_vavs>>
             ELSE /\ pc' = "vav"
                  /\ vi' = vi + 1
                  /\ final_mapper' = a.mapper
                  /\ log' = Append(log, [equip_id |-> vav_id, maps |-> Maps(template, r)])
                  /\ any_unmapped' = (any_unmapped \/ ~Maps(template, r))
                  /\ null_vavs' = IF ~IdTruthy(ahu_id) /\ Maps(template, r)
                                  THEN null_vavs \cup {vav_id} ELSE null_vavs
    /\ UNCHANGED <<site, overridden, vav_returns, n_groups, ahu_id, vavs, ahu_name, vav_topic,
                   files, unmapped_device_details, power_meter_id, exit_status>>

\* lines 173-175: the bundle generate_ahu_configs returns
ReturnedMapper(mapper) == IF mapper[driver_vip] = <<>> THEN None ELSE mapper

\* lines 103-110: the file a returned bundle goes to, if any
WriteResult(fs, name, result) ==
    IF Falsy(result) THEN fs
    ELSE IF Truthy(name) THEN WriteFile(fs, ConfigPath(name), result)
    ELSE WriteFile(fs, UnmappedVavsPath, result)

\* the loop over the VAVs is over: generate_ahu_configs returns
\* (ahu_name, final_mapper) and generate_configs writes the bundle
WriteGroup ==
    /\ pc = "vav"
    /\ vi > Len(vavs)
    /\ files' = WriteResult(files, ahu_name, ReturnedMapper(final_mapper))
    /\ pc' = "loop"
    \* the locals of the finished iteration are dead: the next one overwrites them
    /\ ahu_id' = NoneId /\ vavs' = <<>> /\ vi' = 1
    /\ ahu_name' = "" /\ vav_topic' = ""
    /\ final_mapper' = None
    /\ ret' = NoRet /\ log' = <<>>
    /\ UNCHANGED <<site, overridden, vav_returns, n_groups, unmapped_device_details,
                   power_meter_id, exit_status, any_unmapped, null_vavs>>

\* lines 121-130: the diagnostics file and the exit status
FinalFiles(fs, details) ==
    IF DOMAIN details # {} THEN WriteFile(fs, ErrFile, details) ELSE fs

ExitStatus(details) == IF DOMAIN details # {} THEN "1" ELSE "0"

\* the iterator is exhausted; lines 113-116: get_building_meter returns an
\* identifier and the meter bundle is written; lines 121-130
MeterConfig ==
    /\ pc = "loop"
    /\ \E meter_id \in site.meters, template \in TemplateReturns :
          LET g == generate_meter_config(meter_id, template)
          IN /\ power_meter_id' = meter_id
             /\ files' = FinalFiles(WriteFile(files, ConfigPath(g[1]), g[2]),
                                    unmapped_device_details)
             /\ ret' = [equip_id |-> meter_id, equip_type |-> "meter", template |-> template,
                        reg |-> NotCalled]
             /\ any_unmapped' = (any_unmapped \/ Falsy(template))
    /\ exit_status' = ExitStatus(unmapped_device_details)
    /\ pc' = "done"
    /\ UNCHANGED <<site, overridden, vav_returns, n_groups, ahu_id, vavs, vi, ahu_name, vav_topic,
                   final_mapper, unmapped_device_details, log, null_vavs>>

\* MeterValueError as it would be if the handler recorded nothing
MeterValueError_NotRecorded ==
    /\ pc = "loop"
    /\ files' = FinalFiles(files, unmapped_device_details)
    /\ exit_status' = ExitStatus(unmapped_device_details)
    /\ any_unmapped' = TRUE
    /\ pc' = "done"
    /\ UNCHANGED <<site, overridden, vav_returns, n_groups, ahu_id, vavs, vi, ahu_name, vav_topic,
                   final_mapper, unmapped_device_details, power_meter_id, ret,
                   log, null_vavs>>

\* the iterator is exhausted; lines 113, 117-118: get_building_meter raises
\* ValueError; lines 121-130
MeterValueError ==
    /\ pc = "loop"
    /\ LET details == [k \in DOMAIN unmapped_device_details \cup {"building_power_meter"} |->
                          IF k = "building_power_meter" THEN [error |-> "no building meter"]
                          ELSE unmapped_device_details[k]]
       IN /\ unmapped_device_details' = details
          /\ files' = FinalFiles(files, details)
          /\ exit_status' = ExitStatus(details)
    /\ any_unmapped' = TRUE
    /\ pc' = "done"
    /\ UNCHANGED <<site, overridden, vav_returns, n_groups, ahu_id, vavs, vi, ahu_name, vav_topic,
                   final_mapper, power_meter_id, ret, log, null_vavs>>

Next ==
    \/ NextGroup
    \/ AhuConfig
    \/ NoAhu
    \/ VavConfig
    \/ WriteGroup
    \/ MeterConfig
    \/ MeterValueError

Spec == Init /\ [][Next]_vars

\* ------------------------------------------------- helpers of the claims
Entries(bundle) == IF Falsy(bundle) THEN <<>> ELSE bundle[driver_vip]
IsRegistryEntry(e) == "config-type" \in DOMAIN e
IsNotRegistryEntry(e) == ~IsRegistryEntry(e)
NameOf(e) == e["config-name"]
\* the config-names of the topic-named (device) entries of a bundle, in order
TopicNames(bundle) ==
    LET devs == SelectSeq(Entries(bundle), IsNotRegistryEntry)
    IN [i \in 1..Len(devs) |-> NameOf(devs[i])]
BundlePaths == DOMAIN files \ {ErrFile}
AtReturn == pc = "vav" /\ vi > Len(vavs)
MeterResolved == pc = "done" /\ power_meter_id # NoneId
MeterFailed == pc = "done" /\ power_meter_id = NoneId
MeterPath == ConfigPath(get_name_from_id(power_meter_id))
\* a step that handled one AHU or VAV (ret then holds what its collaborators returned)
DeviceHandled == ret' # ret /\ ret'.equip_type \in {"ahu", "vav"}
RegistryUri(equip_id, rtype) == "config://registry_config/" \o equip_id \o "." \o rtype
RegistryName(equip_id, rtype) == "registry_config/" \o equip_id \o "." \o rtype

\* ------------------------------------------------------------- claims

\* C1: a run that reaches its end exits with status 0 only if every device
\* was mapped, and with status 1 if any AHU, VAV or the meter was not mapped.
C1_ExitStatusTellsUnmapped ==
    pc = "done" => /\ exit_status = "0" => ~any_unmapped
                   /\ any_unmapped => exit_status = "1"

\* C2: no bundle file written by the run holds a Config Bundle with zero
\* entries, the building-meter bundle included.
C2_NoEmptyBundleOnDisk ==
    \A p \in BundlePaths : Entries(files[p]) # <<>>

\* the step out of the loop that leaves power_meter_id unset: get_building_meter failed
C3_MeterFailureStep ==
    (pc = "loop" /\ pc' # "vav" /\ pc' # "ahu" /\ pc' # "loop" /\ power_meter_id' = NoneId) =>
        /\ pc' = "done"
        /\ "building_power_meter" \in DOMAIN unmapped_device_details'
        /\ DOMAIN files' = DOMAIN files \cup {ErrFile}
        /\ files'[ErrFile] = unmapped_device_details'
        /\ \A p \in DOMAIN files : files'[p] = files[p]
        /\ exit_status' = "1"
\* C3: if get_building_meter fails with a value error the run is not aborted:
\* the groups were processed and their files stay as written, the details gain
\* building_power_meter, the details file is written, no meter bundle file is
\* written and the exit status is 1.
C3_MeterFailureNotFatal ==
    /\ [][C3_MeterFailureStep]_vars
    /\ [](MeterFailed => /\ "building_power_meter" \in DOMAIN unmapped_device_details
                         /\ ErrFile \in DOMAIN files
                         /\ files[ErrFile] = unmapped_device_details
                         /\ final_mapper = None
                         /\ exit_status = "1")
C3_Witness ==
    /\ MeterFailed
    /\ exit_status = "1"
    /\ n_groups = 2
    /\ ConfigPath("AHU1") \in DOMAIN files
    /\ UnmappedVavsPath \in DOMAIN files
    /\ DOMAIN files = {ConfigPath("AHU1"), UnmappedVavsPath, ErrFile}

\* the topic of the i-th device of the current group (the AHU is the first)
C4_ExpectedTopic(i) ==
    IF i = 1 THEN topic_prefix \o get_name_from_id(ahu_id)
    ELSE topic_prefix \o get_name_from_id(ahu_id) \o "/" \o get_name_from_id(log[i].equip_id)
C4_Mapped == {i \in 1..Len(log) : log[i].maps}
\* the topics of the devices among the first n that mapped, in order
RECURSIVE C4_Expected(_)
C4_Expected(n) ==
    IF n = 0 THEN <<>>
    ELSE IF n \in C4_Mapped THEN Append(C4_Expected(n - 1), C4_ExpectedTopic(n))
    ELSE C4_Expected(n - 1)
\* C4: for a group with a non-null AHU identifier the bundle generate_ahu_configs
\* returns has the AHU's topic entry exactly when the AHU maps, then one topic
\* entry per VAV that maps, in the group's order, and none for a VAV that does
\* not map; a group with a device that maps returns a bundle.
C4_AhuBundleHoldsMappedDevices ==
    (AtReturn /\ IdTruthy(ahu_id)) =>
        /\ Len(log) = 1 + Len(vavs)
        /\ \A i \in 2..Len(log) : log[i].equip_id = vavs[i - 1]
        /\ TopicNames(ReturnedMapper(final_mapper)) = C4_Expected(Len(log))
        /\ (C4_Mapped # {}) => ~Falsy(ReturnedMapper(final_mapper))
C4_Witness ==
    /\ AtReturn /\ IdTruthy(ahu_id)
    /\ Len(vavs) = 2
    /\ log[1].maps /\ ~log[2].maps /\ log[3].maps
    /\ Falsy(vav_returns[vavs[1]].template)
    /\ TopicNames(ReturnedMapper(final_mapper)) =
           <<topic_prefix \o "AHU1", topic_prefix \o "AHU1/VAV2">>

C5_HasTopic(p, topic) ==
    /\ p \in DOMAIN files
    /\ \E i \in 1..Len(Entries(files[p])) : NameOf(Entries(files[p])[i]) = topic
\* C5: at the end of the run errors/unmapped_vavs.json has an entry, with the
\* topic directly under the shared prefix, for every mapped VAV of every group
\* with a null AHU identifier, and no file under configs has such an entry.
C5_UnmappedVavsAllOnDisk ==
    pc = "done" =>
        \A v \in null_vavs :
            /\ C5_HasTopic(UnmappedVavsPath, topic_prefix \o get_name_from_id(v))
            /\ \A p \in BundlePaths \ {UnmappedVavsPath} :
                   ~C5_HasTopic(p, topic_prefix \o get_name_from_id(v))

\* the step that writes the non-empty bundle of a group with a truthy AHU identifier
C6_WrittenUnderResolvedName ==
    (AtReturn /\ IdTruthy(ahu_id) /\ ~Falsy(ReturnedMapper(final_mapper))) =>
        /\ ConfigPath(get_name_from_id(ahu_id)) \in DOMAIN files'
        /\ files'[ConfigPath(get_name_from_id(ahu_id))] = ReturnedMapper(final_mapper)
        /\ UnmappedVavsPath \in DOMAIN files' =>
               /\ UnmappedVavsPath \in DOMAIN files
               /\ files'[UnmappedVavsPath] = files[UnmappedVavsPath]
\* no step changes a bundle file under configs
C6_NeverReplaced ==
    \A p \in BundlePaths \ {UnmappedVavsPath} : p \in DOMAIN files' /\ files'[p] = files[p]
\* C6: the non-empty bundle of a group with a non-null AHU identifier is written
\* to configs/<resolved AHU name>.json and not to errors/unmapped_vavs.json, and
\* a bundle file under configs, once written, is never replaced, so at the end
\* of the run the file holds that group's bundle.
C6_NamedBundleKept ==
    [][C6_WrittenUnderResolvedName /\ C6_NeverReplaced]_vars

\* the step that handles a device whose config asks for a registry and gets one
C7_RegistryStep ==
    (DeviceHandled /\ NeedsRegistry(ret'.template) /\ ret'.reg.rfile # "") =>
        LET id == ret'.equip_id
            rtype == ret'.reg.rtype
            before == Entries(final_mapper)
            after == Entries(final_mapper')
        IN /\ Len(after) = Len(before) + 2
           /\ SubSeq(after, 1, Len(before)) = before
           /\ after[Len(before) + 1] =
                  RegistryEntry(RegistryName(id, rtype), ret'.reg.rfile, rtype)
           /\ IsNotRegistryEntry(after[Len(before) + 2])
           /\ after[Len(before) + 2]["config"] =
                  [ret'.template EXCEPT !["registry_config"] = RegistryUri(id, rtype)]
C7_DeviceIds == UNION {st.ahus : st \in Sites} \cup VavIds
\* in the files the groups wrote, a device entry with a registry field follows
\* its registry entry and points to it
C7_OnDisk ==
    \A p \in BundlePaths :
        (power_meter_id = NoneId \/ p # MeterPath) =>
            \A i \in 1..Len(Entries(files[p])) :
                LET e == Entries(files[p])[i]
                IN (IsNotRegistryEntry(e) /\ Get(e["config"], "registry_config") # "") =>
                       /\ i > 1
                       /\ IsRegistryEntry(Entries(files[p])[i - 1])
                       /\ e["config"]["registry_config"] =
                              "config://" \o NameOf(Entries(files[p])[i - 1])
                       /\ NameOf(Entries(files[p])[i - 1]) \in
                              {RegistryName(id, Entries(files[p])[i - 1]["config-type"]) :
                                  id \in C7_DeviceIds}
C8_MeterRegistryResolved ==
    (MeterResolved /\ NeedsRegistry(ret.template)) =>
        LET es == Entries(files[MeterPath])
        IN \/ es = <<>>
           \/ /\ Len(es) = 2
              /\ IsRegistryEntry(es[1])
              /\ NameOf(es[1]) = RegistryName(power_meter_id, es[1]["config-type"])
              /\ es[2]["config"]["registry_config"] =
                     RegistryUri(power_meter_id, es[1]["config-type"])

\* a step handled an AHU or VAV whose template was falsy or whose registry
\* generation returned no file
C9_DeviceFailed ==
    /\ DeviceHandled
    /\ \/ Falsy(ret'.template)
       \/ NeedsRegistry(ret'.template) /\ overridden /\ ret'.reg.rfile = ""
C9_FailureStep ==
    C9_DeviceFailed =>
        /\ unmapped_device_details' = unmapped_device_details
        /\ files' = files
        /\ final_mapper' = final_mapper
        /\ pc' = "vav"
        /\ exit_status' = "none"
        /\ vi' = IF pc = "ahu" THEN 1 ELSE vi + 1
        /\ Len(log') = Len(log) + 1
C10_AbortStep ==
    (DeviceHandled /\ ~overridden /\ NeedsRegistry(ret'.template)) =>
        /\ pc' = "aborted"
        /\ files' = files
        /\ unmapped_device_details' = unmapped_device_details
        /\ exit_status' = "none"
\* C10: without an override of generate_registry_config, an AHU or VAV config
\* with a truthy registry_config aborts the run at that device: nothing is
\* processed or written afterwards, there is no details file and no exit
\* status, and the files written before stay.
C10_MissingOverrideAborts ==
    /\ [][C10_AbortStep]_vars
    /\ [][pc # "aborted"]_vars
    /\ [](pc = "aborted" => /\ exit_status = "none"
                            /\ ErrFile \notin DOMAIN files
                            /\ power_meter_id = NoneId
                            /\ unmapped_device_details = None
                            /\ ~overridden /\ NeedsRegistry(ret.template))
C10_Witness ==
    /\ pc = "aborted"
    /\ ~overridden
    /\ ret.equip_type = "vav"
    /\ vi = 2
    /\ n_groups = 2
    /\ ConfigPath("AHU1") \in DOMAIN files
    /\ exit_status = "none"

====
